---------------------------- MODULE Spec2Model ----------------------------
(***************************************************************************)
(* Batch normalization (chainer/functions/normalization/                   *)
(* batch_normalization.py): BatchNormalization, BatchNormalizationGrad,    *)
(* FixedBatchNormalization and FixedBatchNormalizationGrad as a state      *)
(* machine over one function object.                                       *)
(*                                                                         *)
(* Numbers are exact rationals <<n, d>> (floating-point rounding is not    *)
(* modelled).  Arrays are records [ok, shape, dtype, v] with v a function  *)
(* from 0-based index tuples to rationals; a raised exception is the       *)
(* record [ok |-> FALSE, err |-> kind], which every array operation passes *)
(* on, so that a chain of operations fails at its first failing step.      *)
(* Axes are 0-based as in Python; shapes are sequences, so axis j has      *)
(* extent shape[j+1].                                                      *)
(***************************************************************************)
EXTENDS Integers, Sequences, FiniteSets, TLC

\* ------------------------------------------------------------------ bounds
\* largest extent of an array axis
MaxDim == 2
\* largest rank of the input x
MaxRank == 3
\* forward calls made on the function object
MaxForward == 2
\* backward calls made, of the first and of the second order
MaxBackward == 2

\* --------------------------------------------------------------- rationals
Abs(a) == IF a < 0 THEN -a ELSE a

RECURSIVE GCD(_, _)
GCD(a, b) == IF b = 0 THEN a ELSE GCD(b, a % b)

\* the rational n/d in lowest terms with a positive denominator;
\* <<0, 0>> stands for a non-finite float (inf or nan)
NaN == <<0, 0>>
Q(n, d) ==
    IF d = 0 THEN NaN
    ELSE LET s == IF d < 0 THEN -1 ELSE 1
             g == GCD(Abs(n), Abs(d))
         IN  <<(s * n) \div g, (s * d) \div g>>

QInt(n) == <<n, 1>>
QAdd(a, b) == IF a = NaN \/ b = NaN THEN NaN
              ELSE Q(a[1] * b[2] + b[1] * a[2], a[2] * b[2])
QNeg(a) == IF a = NaN THEN NaN ELSE <<-a[1], a[2]>>
QSub(a, b) == QAdd(a, QNeg(b))
QMul(a, b) == IF a = NaN \/ b = NaN THEN NaN ELSE Q(a[1] * b[1], a[2] * b[2])
QDiv(a, b) == IF a = NaN \/ b = NaN THEN NaN ELSE Q(a[1] * b[2], a[2] * b[1])
QLess(a, b) == a[1] * b[2] < b[1] * a[2]

IsSquare(n) == \E k \in 0..n : k * k = n
ISqrt(n) == CHOOSE k \in 0..n : k * k = n
\* a positive rational with a rational square root
QIsSquare(a) == a # NaN /\ a[1] > 0 /\ IsSquare(a[1]) /\ IsSquare(a[2])
\* a ** (-0.5) and sqrt(a); exact on the rational squares, non-finite otherwise
QPowNegHalf(a) == IF QIsSquare(a) THEN Q(ISqrt(a[2]), ISqrt(a[1])) ELSE NaN
QSqrt(a) == IF QIsSquare(a) THEN Q(ISqrt(a[1]), ISqrt(a[2])) ELSE NaN

RECURSIVE QSumSet(_, _)
\* the sum of f[i] over the finite set S
QSumSet(S, f) ==
    IF S = {} THEN QInt(0)
    ELSE LET i == CHOOSE j \in S : TRUE
         IN  QAdd(f[i], QSumSet(S \ {i}, f))

\* ------------------------------------------------------------------ shapes
RECURSIVE Prod(_)
Prod(s) == IF s = <<>> THEN 1 ELSE Head(s) * Prod(Tail(s))

Max(a, b) == IF a > b THEN a ELSE b
Min(a, b) == IF a < b THEN a ELSE b

\* the tuple <<F(1), ..., F(n)>>, built element by element
RECURSIVE TupOver(_, _)
TupOver(n, f) == IF n <= 0 THEN <<>> ELSE Append(TupOver(n - 1, f), f[n])
Tup(n, F(_)) == TupOver(n, [k \in 1..n |-> F(k)])

\* tuple(range(a, b))
Range(a, b) == Tup(Max(b - a, 0), LAMBDA k : a + k - 1)

\* the elements of a tuple
Elems(s) == {s[k] : k \in 1..Len(s)}

\* the index tuples of an array of shape s
Idx(s) == {i \in [1..Len(s) -> 0..(MaxDim - 1)] : \A k \in 1..Len(s) : i[k] < s[k]}

RECURSIVE TabOver(_, _)
\* the function f restricted to S, tabulated element by element
TabOver(S, f) ==
    IF S = {} THEN [i \in {} |-> NaN]
    ELSE LET i == CHOOSE j \in S : TRUE
         IN  (i :> f[i]) @@ TabOver(S \ {i}, f)
\* the contents of an array of shape s with element F(i) at index i
Tab(s, F(_)) == TabOver(Idx(s), [i \in Idx(s) |-> F(i)])

\* numpy broadcasting of two shapes, aligned at the last axis
BRank(s, t) == Max(Len(s), Len(t))
BDim(s, n, k) == IF k + Len(s) - n >= 1 THEN s[k + Len(s) - n] ELSE 1
BCompat(s, t) ==
    \A k \in 1..BRank(s, t) :
        LET a == BDim(s, BRank(s, t), k)
            b == BDim(t, BRank(s, t), k)
        IN  a = b \/ a = 1 \/ b = 1
BShape(s, t) ==
    Tup(BRank(s, t), LAMBDA k :
        LET a == BDim(s, BRank(s, t), k)
            b == BDim(t, BRank(s, t), k)
        IN  IF a = 1 THEN b ELSE a)
\* the index into an operand of shape s for index i of the broadcast result
BIdx(i, s) ==
    Tup(Len(s), LAMBDA k : IF s[k] = 1 THEN 0 ELSE i[Len(i) - Len(s) + k])

\* ------------------------------------------------------------------ arrays
Bad(kind) == [ok |-> FALSE, err |-> kind]
Arr(shape, dtype, v) == [ok |-> TRUE, shape |-> shape, dtype |-> dtype, v |-> v]
\* xp.zeros(shape, dtype) and a Python number as a 0-d operand
Zeros(shape, dtype) == Arr(shape, dtype, Tab(shape, LAMBDA i : QInt(0)))
Scalar(q) == Arr(<<>>, "py", <<>> :> q)

\* a op b with broadcasting; a Python scalar ("py") takes the array's dtype
EW(Op(_, _), a, b) ==
    IF ~a.ok THEN a
    ELSE IF ~b.ok THEN b
    ELSE IF ~BCompat(a.shape, b.shape) THEN Bad("ValueError")
    ELSE LET s == BShape(a.shape, b.shape)
         IN  Arr(s, IF a.dtype = "py" THEN b.dtype ELSE a.dtype,
                 Tab(s, LAMBDA i : Op(a.v[BIdx(i, a.shape)], b.v[BIdx(i, b.shape)])))
\* a op= b: b must broadcast to a's own shape
EWIn(Op(_, _), a, b) ==
    IF ~a.ok THEN a
    ELSE IF ~b.ok THEN b
    ELSE IF ~BCompat(a.shape, b.shape) \/ BShape(a.shape, b.shape) # a.shape
         THEN Bad("ValueError")
    ELSE EW(Op, a, b)

Add(a, b) == EW(QAdd, a, b)
Sub(a, b) == EW(QSub, a, b)
Mul(a, b) == EW(QMul, a, b)
Div(a, b) == EW(QDiv, a, b)
IAdd(a, b) == EWIn(QAdd, a, b)
IMul(a, b) == EWIn(QMul, a, b)
Scale(q, a) == IF ~a.ok THEN a ELSE Arr(a.shape, a.dtype, Tab(a.shape, LAMBDA i : QMul(q, a.v[i])))
Map(F(_), a) == IF ~a.ok THEN a ELSE Arr(a.shape, a.dtype, Tab(a.shape, LAMBDA i : F(a.v[i])))

\* numpy's normalisation of an axis tuple for an array of rank r
NormAxis(a, r) == IF a < 0 THEN a + r ELSE a
AxisErr(axis, r) ==
    IF \E k \in 1..Len(axis) : axis[k] < -r \/ axis[k] >= r THEN "AxisError"
    ELSE IF \E k, l \in 1..Len(axis) : k # l /\ NormAxis(axis[k], r) = NormAxis(axis[l], r)
         THEN "ValueError"
    ELSE "none"
\* the axes a reduction over `axis` keeps, ascending
RECURSIVE KeptFrom(_, _, _)
KeptFrom(j, r, red) ==
    IF j >= r THEN <<>>
    ELSE IF j \in red THEN KeptFrom(j + 1, r, red)
    ELSE <<j>> \o KeptFrom(j + 1, r, red)
Kept(axis, r) == KeptFrom(0, r, {NormAxis(axis[k], r) : k \in 1..Len(axis)})

\* a.sum(axis=axis)
Sum(a, axis) ==
    IF ~a.ok THEN a
    ELSE IF AxisErr(axis, Len(a.shape)) # "none" THEN Bad(AxisErr(axis, Len(a.shape)))
    ELSE LET kept == Kept(axis, Len(a.shape))
             s == Tup(Len(kept), LAMBDA k : a.shape[kept[k] + 1])
         IN  Arr(s, a.dtype,
                 Tab(s, LAMBDA i : QSumSet({j \in Idx(a.shape) :
                                 \A k \in 1..Len(kept) : j[kept[k] + 1] = i[k]}, a.v)))
\* the number of elements reduced into each output element
Count(a, axis) ==
    IF Len(a.shape) = 0 THEN 1
    ELSE Prod(a.shape) \div Prod(Tup(Len(Kept(axis, Len(a.shape))), LAMBDA k :
                                    a.shape[Kept(axis, Len(a.shape))[k] + 1]))
\* a.mean(axis=axis)
Mean(a, axis) ==
    LET t == Sum(a, axis)
    IN  IF ~t.ok THEN t ELSE Scale(Q(1, Count(a, axis)), t)
\* a.var(axis=axis): the mean of the squared deviations from the mean
Var(a, axis) ==
    LET mu == Mean(a, axis)
    IN  IF ~mu.ok THEN mu
        ELSE LET kept == Kept(axis, Len(a.shape))
                 dev == Arr(a.shape, a.dtype,
                            Tab(a.shape, LAMBDA j : LET d == QSub(a.v[j], mu.v[Tup(Len(kept), LAMBDA k : j[kept[k] + 1])])
                                IN  QMul(d, d)))
             IN  Mean(dev, axis)

\* a[expander]: expander is a list holding None (a new axis), written <<>>,
\* or slice(n), written <<n>>
SlicePos(e) == {p \in 1..Len(e) : e[p] # <<>>}
\* how many slices stand at positions before p
SliceNo(e, p) == Cardinality({q \in SlicePos(e) : q <= p})
GetItem(a, e) ==
    IF ~a.ok THEN a
    ELSE IF Cardinality(SlicePos(e)) > Len(a.shape) THEN Bad("IndexError")
    ELSE LET ns == Cardinality(SlicePos(e))
             rest == Len(a.shape) - ns
             s == Tup((Len(e) + rest), LAMBDA p :
                     IF p > Len(e) THEN a.shape[ns + p - Len(e)]
                     ELSE IF e[p] = <<>> THEN 1
                     ELSE Min(e[p][1], a.shape[SliceNo(e, p)]))
             from(i) == Tup(Len(a.shape), LAMBDA k :
                            IF k > ns THEN i[Len(e) + k - ns]
                            ELSE i[CHOOSE p \in SlicePos(e) : SliceNo(e, p) = k])
         IN  Arr(s, a.dtype, Tab(s, LAMBDA i : a.v[from(i)]))

\* Python's None where an array is expected, and x is None
NoneArr == [ok |-> FALSE, err |-> "None"]
IsNone(a) == ~a.ok /\ a.err = "None"
\* an operation on None raises TypeError
Deref(a) == IF IsNone(a) THEN Bad("TypeError") ELSE a
\* xp.empty_like(a): contents unspecified until written
EmptyLike(a) == Arr(a.shape, a.dtype, Tab(a.shape, LAMBDA i : NaN))
Size(a) == Prod(a.shape)
Finite(a) == a.ok /\ \A i \in Idx(a.shape) : a.v[i] # NaN

\* ------------------------------------------------------------ the program
VARIABLES
    env,      \* the configuration: should_use_cudnn('>=auto')
    ctor,     \* the arguments the function object was constructed with
    self,     \* the function object's attributes
    heap,     \* the storage of the arrays that are updated in place or shared
    grads,    \* the gradient function objects that backward has created
    ret,      \* the outcome of the last call
    nfwd,     \* forward calls made
    nbwd,     \* backward calls made, of either order
    writer    \* history: the path whose code last allocated or wrote the
              \* arrays self.mean and self.inv_std of the training mode

vars == <<env, ctor, self, heap, grads, ret, nfwd, nbwd, writer>>

\* a reference to storage: an index into heap, 0 for None
NoRef == 0
\* an optional tuple: the axis attribute is None or a tuple
NoneTuple == [some |-> FALSE, t |-> <<>>]
Tuple(t) == [some |-> TRUE, t |-> t]

\* ----------------------------------------------------------- construction
\* isinstance(axis, collections.Sequence) and isinstance(axis, int) on an
\* axis argument [type, v]: tuples, lists and strings are sequences, and so
\* is a tuple of floats ("floats")
IsSequence(arg) == arg.type \in {"tuple", "list", "str", "floats"}
IsInt(arg) == arg.type = "int"

\* BatchNormalization.__init__ / FixedBatchNormalization.__init__: the axis
\* argument [type, v]; an int a, written v = <<a>>, becomes the tuple (a,)
InitAxis(arg) ==
    IF IsSequence(arg) THEN Tuple(arg.v)
    ELSE IF IsInt(arg) THEN Tuple(<<arg.v[1]>>)
    ELSE NoneTuple

\* attributes not yet assigned are written NoRef, <<>>, FALSE; inputs, xp and
\* y_shape are what FunctionNode keeps of the last application: the
\* retained inputs, their array module and the shape of the output
NoMode == [is_for_conv2d |-> FALSE, is_for_linear |-> FALSE,
           cudnn_dim_ok |-> FALSE, cudnn_dtype_ok |-> FALSE]
NoInputs == <<>>

BatchNormalization(eps, mean, var, decay, axis) ==
    [kind |-> "train", eps |-> eps, decay |-> decay,
     running_mean |-> mean, running_var |-> var,
     axis |-> InitAxis(axis),
     key_axis |-> <<>>, expander |-> <<>>, mode |-> NoMode, use_cudnn |-> FALSE,
     mean |-> NoRef, inv_std |-> NoRef, inv_var |-> NoRef,
     inputs |-> NoInputs, xp |-> "numpy", y_shape |-> <<>>]

FixedBatchNormalization(eps, axis) ==
    [kind |-> "fixed", eps |-> eps, decay |-> QInt(0),
     running_mean |-> NoRef, running_var |-> NoRef,
     axis |-> InitAxis(axis),
     key_axis |-> <<>>, expander |-> <<>>, mode |-> NoMode, use_cudnn |-> FALSE,
     mean |-> NoRef, inv_std |-> NoRef, inv_var |-> NoRef,
     inputs |-> NoInputs, xp |-> "numpy", y_shape |-> <<>>]

\* the minimum the constructor compares eps with: 1e-5
MinEps == Q(1, 100000)

\* no object: what a constructor that raises leaves its caller with
NoObject == [kind |-> "none"]

\* elif axis is not None: raise RuntimeError(...)
AxisRaises(arg) == ~IsSequence(arg) /\ ~IsInt(arg) /\ arg.type # "none"

\* BatchNormalization.__init__ with its two raise statements; a is the
\* arguments, cudnn is chainer.should_use_cudnn('>=auto')
BatchNormalizationInit(a, cudnn) ==
    IF cudnn /\ QLess(a.eps, MinEps)
    THEN [status |-> "eps less than 1e-5", self |-> NoObject]
    ELSE IF AxisRaises(a.axis)
    THEN [status |-> "axis must be int, tuple of int or None", self |-> NoObject]
    ELSE [status |-> "ok",
          self |-> BatchNormalization(a.eps, a.mean, a.var, a.decay, a.axis)]

\* FixedBatchNormalization.__init__: eps is stored as it comes
FixedBatchNormalizationInit(a, cudnn) ==
    IF AxisRaises(a.axis)
    THEN [status |-> "axis must be int, tuple of int or None", self |-> NoObject]
    ELSE [status |-> "ok", self |-> FixedBatchNormalization(a.eps, a.axis)]

\* ------------------------------------------------------- axis resolution
\* forward, axis None: (0,) + tuple(range(gamma.ndim + 1, x.ndim))
LegacyAxis(x, gamma) == <<0>> \o Range(Len(gamma.shape) + 1, Len(x.shape))
ResolveAxis(axis, x, gamma) == IF axis.some THEN axis ELSE Tuple(LegacyAxis(x, gamma))

\* tuple([i for i in range(x.ndim) if i not in self.axis])
KeyAxis(axis, x) == KeptFrom(0, Len(x.shape), Elems(axis))

\* for i, j in enumerate(key_axis): if gamma.shape[i] != x.shape[j]: raise;
\* gamma.shape[i] is an IndexError past gamma's rank
RECURSIVE ShapeCheckFrom(_, _, _, _)
ShapeCheckFrom(i, key_axis, x, gamma) ==
    IF i > Len(key_axis) THEN "ok"
    ELSE IF i > Len(gamma.shape) THEN "IndexError"
    ELSE IF gamma.shape[i] # x.shape[key_axis[i] + 1] THEN "shape mismatch"
    ELSE ShapeCheckFrom(i + 1, key_axis, x, gamma)
ShapeCheck(key_axis, x, gamma) == ShapeCheckFrom(1, key_axis, x, gamma)

\* expander[j] = slice(gamma.shape[i]) at the key axes, None elsewhere
Expander(key_axis, x, gamma) ==
    Tup(Len(x.shape), LAMBDA p :
        IF \E i \in 1..Len(key_axis) : key_axis[i] = p - 1
        THEN <<gamma.shape[CHOOSE i \in 1..Len(key_axis) : key_axis[i] = p - 1]>>
        ELSE <<>>)

\* ------------------------------------------------------------ type check
\* BatchNormalization.check_type_forward, as FunctionNode.apply runs it
\* before forward when type checking is on
CheckTypeForward(f, in) ==
    LET M == Len(in.gamma.shape)
    IN  /\ in.x.dtype \in {"float16", "float32", "float64"}
        /\ in.gamma.dtype = in.x.dtype
        /\ in.beta.dtype = in.x.dtype
        /\ in.gamma.shape = in.beta.shape
        /\ IF ~f.axis.some
           THEN /\ Len(in.x.shape) >= M + 1
                /\ SubSeq(in.x.shape, 2, 1 + M) = in.gamma.shape
           ELSE Len(in.x.shape) > Len(f.axis.t)

\* FixedBatchNormalization.check_type_forward
FixedCheckTypeForward(f, in) ==
    /\ CheckTypeForward(f, in)
    /\ in.mean.dtype = in.x.dtype
    /\ in.mean.shape = in.gamma.shape
    /\ in.var.dtype = in.x.dtype
    /\ in.var.shape = in.gamma.shape

\* ------------------------------------------------------------------ _BNMode
\* _BNMode.__init__; key_axis[0] of an empty key_axis is an IndexError
BNModeRaises(x, gamma, key_axis) == Len(gamma.shape) = 1 /\ key_axis = <<>>
\* the variant of _BNMode.__init__ with the earlier dtype test,
\* cudnn_dtype_ok = x.dtype != numpy.float16
BNModeNoFloat16(x, gamma, key_axis) ==
    LET is_gamma_1d == Len(gamma.shape) = 1
        is_for_conv2d == is_gamma_1d /\ Len(x.shape) = 4 /\ key_axis[1] = 1
        is_for_linear == is_gamma_1d /\ key_axis[1] = Len(x.shape) - 1
    IN  [is_for_conv2d |-> is_for_conv2d,
         is_for_linear |-> is_for_linear,
         cudnn_dim_ok |-> is_for_conv2d \/ is_for_linear,
         cudnn_dtype_ok |-> x.dtype # "float16"]

BNMode(x, gamma, key_axis) ==
    LET is_gamma_1d == Len(gamma.shape) = 1
        is_for_conv2d == is_gamma_1d /\ Len(x.shape) = 4 /\ key_axis[1] = 1
        is_for_linear == is_gamma_1d /\ key_axis[1] = Len(x.shape) - 1
    IN  [is_for_conv2d |-> is_for_conv2d,
         is_for_linear |-> is_for_linear,
         cudnn_dim_ok |-> is_for_conv2d \/ is_for_linear,
         cudnn_dtype_ok |-> is_for_conv2d \/ x.dtype # "float16"]

\* _BNMode.can_use_cudnn
CanUseCudnn(mode, xp, cudnn) ==
    xp # "numpy" /\ cudnn /\ mode.cudnn_dim_ok /\ mode.cudnn_dtype_ok

\* ------------------------------------------------------- the transform
\* _x_hat: x_mu = x - mean; x_mu *= inv_std
XHat(x, mean, inv_std) == IMul(Sub(x, mean), inv_std)

\* _apply_bn_fwd: on numpy y = gamma * x_hat; y += beta; elsewhere one
\* elementwise kernel over the broadcast operands
ApplyBnFwd(xp, x, mean, inv_std, gamma, beta) ==
    IF xp = "numpy"
    THEN IAdd(Mul(gamma, XHat(x, mean, inv_std)), beta)
    ELSE Add(Mul(Mul(gamma, Sub(x, mean)), inv_std), beta)

\* the outcome of a call: what it left of the object and the storage, its
\* status ("ok" or the exception raised) and the arrays it returned
Outcome(f, h, status, out) == [self |-> f, heap |-> h, status |-> status, out |-> out]
Store(h, r, a) == [h EXCEPT ![r] = a]

\* ------------------------------------------ BatchNormalization.forward
\* the unbiased-estimation factor: m = x.size // gamma.size;
\* adjust = m / max(m - 1., 1.)
Adjust(x, gamma) ==
    LET m == Size(x) \div Size(gamma)
    IN  Q(m, Max(m - 1, 1))

\* var += self.eps, in place: every later use of var reads var + eps
AddEps(var, eps) == Map(LAMBDA q : QAdd(q, eps), var)

\* the else branch of forward, the generic path, statement by statement;
\* each stage hands the names it has bound to the next.
\* gamma[expander], beta[expander], x.mean, x.var, var += eps
GenericStats(f, h, in) ==
    [f |-> f, h |-> h, in |-> in,
     gamma |-> GetItem(in.gamma, f.expander),
     beta |-> GetItem(in.beta, f.expander),
     mean |-> Mean(in.x, f.axis.t),
     var |-> AddEps(Var(in.x, f.axis.t), f.eps)]

\* self.mean and self.inv_std = var ** (-0.5) are new arrays; the running
\* statistics are scaled in place
GenericCache(s) ==
    [inv_std |-> Map(QPowNegHalf, s.var),
     fB |-> [s.f EXCEPT !.mean = Len(s.h) + 1, !.inv_std = Len(s.h) + 2],
     rm1 |-> IMul(s.h[s.f.running_mean], Scalar(s.f.decay)),
     rv1 |-> IF s.f.running_var = NoRef THEN Bad("TypeError")
             ELSE IMul(s.h[s.f.running_var], Scalar(s.f.decay))] @@ s

\* the variant of GenericUpdate that blends the batch statistics in twice
GenericUpdateTwice(s) ==
    [hB |-> s.h \o <<s.mean, s.inv_std>>,
     y |-> ApplyBnFwd(s.in.xp, s.in.x, GetItem(s.mean, s.f.expander),
                      GetItem(s.inv_std, s.f.expander), s.gamma, s.beta),
     rm2 |-> IAdd(IAdd(s.rm1, Scale(QSub(QInt(1), s.f.decay), s.mean)),
                  Scale(QSub(QInt(1), s.f.decay), s.mean)),
     rv2 |-> IAdd(s.rv1, Scale(QMul(QSub(QInt(1), s.f.decay),
                                    Adjust(s.in.x, s.in.gamma)), s.var))] @@ s

\* y = _apply_bn_fwd(...); running_mean += (1 - decay) * mean;
\* running_var += (1 - decay) * adjust * var
GenericUpdate(s) ==
    [hB |-> s.h \o <<s.mean, s.inv_std>>,
     y |-> ApplyBnFwd(s.in.xp, s.in.x, GetItem(s.mean, s.f.expander),
                      GetItem(s.inv_std, s.f.expander), s.gamma, s.beta),
     rm2 |-> IAdd(s.rm1, Scale(QSub(QInt(1), s.f.decay), s.mean)),
     rv2 |-> IAdd(s.rv1, Scale(QMul(QSub(QInt(1), s.f.decay),
                                    Adjust(s.in.x, s.in.gamma)), s.var))] @@ s

\* an exception leaves what the statements before it have assigned
GenericOutcome(s) ==
    IF ~s.gamma.ok THEN Outcome(s.f, s.h, s.gamma.err, <<>>)
    ELSE IF ~s.beta.ok THEN Outcome(s.f, s.h, s.beta.err, <<>>)
    ELSE IF ~s.mean.ok THEN Outcome(s.f, s.h, s.mean.err, <<>>)
    ELSE IF ~s.y.ok THEN Outcome(s.fB, s.hB, s.y.err, <<>>)
    ELSE IF ~s.rm2.ok
         THEN Outcome(s.fB, Store(s.hB, s.f.running_mean, s.rm1), s.rm2.err, <<>>)
    ELSE IF ~s.rv1.ok
         THEN Outcome(s.fB, Store(s.hB, s.f.running_mean, s.rm2), s.rv1.err, <<>>)
    ELSE IF ~s.rv2.ok
         THEN Outcome(s.fB, Store(Store(s.hB, s.f.running_mean, s.rm2),
                                  s.f.running_var, s.rv1), s.rv2.err, <<>>)
    ELSE Outcome(s.fB, Store(Store(s.hB, s.f.running_mean, s.rm2),
                             s.f.running_var, s.rv2), "ok", <<s.y>>)

ForwardGeneric(f, h, in) == GenericOutcome(GenericUpdate(GenericCache(GenericStats(f, h, in))))

\* what libcudnn's batch normalization reduces over: every axis of the 4-d
\* view (_as4darray) but the channel axis key_axis[0]
CudnnAxis(x, key_axis) == KeptFrom(0, Len(x.shape), {key_axis[1]})

\* deriveBNTensorDescriptor: the parameter dtype of a float16 tensor is
\* float32
DtypeParam(dtype) == IF dtype = "float16" THEN "float32" ELSE dtype
AsType(a, dtype) == Arr(a.shape, dtype, a.v)

\* the if branch of forward, the accelerated path.
\* gamma and beta in the parameter dtype; self.mean and self.inv_std are
\* allocated only when self.mean is None
CudnnBuffers(f, h, in) ==
    [f |-> f, h |-> h, in |-> in,
     gamma |-> AsType(in.gamma, DtypeParam(in.x.dtype)),
     beta |-> AsType(in.beta, DtypeParam(in.x.dtype)),
     hA |-> IF f.mean = NoRef
            THEN h \o <<EmptyLike(AsType(in.gamma, DtypeParam(in.x.dtype))),
                        EmptyLike(AsType(in.gamma, DtypeParam(in.x.dtype)))>>
            ELSE h,
     fA |-> IF f.mean = NoRef
            THEN [f EXCEPT !.mean = Len(h) + 1, !.inv_std = Len(h) + 2]
            ELSE f]

\* what libcudnn.batchNormalizationForwardTraining computes: the batch
\* mean and variance over every axis but the channel axis
CudnnStats(s) ==
    [mean |-> AsType(Mean(s.in.x, CudnnAxis(s.in.x, s.f.key_axis)), s.hA[s.fA.mean].dtype),
     var |-> Var(s.in.x, CudnnAxis(s.in.x, s.f.key_axis))] @@ s

\* and what it writes into the buffers it is handed: y, the saved mean and
\* inverse standard deviation, and the running statistics (moving average
\* with factor 1 - decay, the variance unbiased)
CudnnWrites(s) ==
    [inv_std |-> AsType(Map(QPowNegHalf, AddEps(s.var, s.f.eps)), s.hA[s.fA.inv_std].dtype),
     rm |-> IF s.f.running_var = NoRef THEN NoneArr
            ELSE Add(Scale(s.f.decay, s.hA[s.f.running_mean]),
                     Scale(QSub(QInt(1), s.f.decay), s.mean)),
     rv |-> IF s.f.running_var = NoRef THEN NoneArr
            ELSE Add(Scale(s.f.decay, s.hA[s.f.running_var]),
                     Scale(QMul(QSub(QInt(1), s.f.decay), Adjust(s.in.x, s.in.gamma)),
                           s.var))] @@ s

CudnnOutput(s) ==
    [y |-> ApplyBnFwd("cupy", s.in.x, GetItem(s.mean, s.f.expander),
                      GetItem(s.inv_std, s.f.expander),
                      GetItem(s.gamma, s.f.expander), GetItem(s.beta, s.f.expander))] @@ s

\* self.running_var.astype raises on None before the allocation,
\* running_var.data after it
CudnnOutcome(s) ==
    IF DtypeParam(s.in.x.dtype) # s.in.x.dtype /\ s.f.running_var = NoRef
    THEN Outcome(s.f, s.h, "AttributeError", <<>>)
    ELSE IF s.f.running_var = NoRef THEN Outcome(s.fA, s.hA, "AttributeError", <<>>)
    ELSE Outcome(s.fA,
                 [s.hA EXCEPT ![s.f.running_mean] = AsType(s.rm, s.hA[s.f.running_mean].dtype),
                              ![s.f.running_var] = AsType(s.rv, s.hA[s.f.running_var].dtype),
                              ![s.fA.mean] = s.mean,
                              ![s.fA.inv_std] = s.inv_std],
                 "ok", <<AsType(s.y, s.in.x.dtype)>>)

ForwardCudnn(f, h, in) ==
    CudnnOutcome(CudnnOutput(CudnnWrites(CudnnStats(CudnnBuffers(f, h, in)))))

\* the library is handed raw pointers: the buffers must hold one element
\* per channel, and a call on buffers of another size is left out
CudnnBuffersFit(f, h, in) ==
    /\ f.running_mean # NoRef => h[f.running_mean].shape = in.gamma.shape
    /\ f.running_var # NoRef => h[f.running_var].shape = in.gamma.shape
    /\ f.mean # NoRef => h[f.mean].shape = in.gamma.shape
    /\ f.inv_std # NoRef => h[f.inv_std].shape = in.gamma.shape

\* a variant of the test below that takes the statistics as absent on
\* every call
RunningAbsentAlways(f) == TRUE

\* if self.running_mean is None: the one test that guards the creation of
\* both running statistics
RunningAbsent(f) == f.running_mean = NoRef

\* BatchNormalization.forward, up to the choice of the path.
\* The running statistics are created, the axis resolved and kept
ForwardResolve(f, h, in, cudnn) ==
    [in |-> in, cudnn |-> cudnn,
     h1 |-> IF RunningAbsent(f)
            THEN h \o <<Zeros(in.gamma.shape, in.gamma.dtype),
                        Zeros(in.gamma.shape, in.gamma.dtype)>>
            ELSE h,
     f1 |-> IF RunningAbsent(f)
            THEN [f EXCEPT !.running_mean = Len(h) + 1, !.running_var = Len(h) + 2]
            ELSE f,
     axis |-> ResolveAxis(f.axis, in.x, in.gamma)]

\* key_axis and the shape loop
ForwardKeyAxis(s) ==
    [key_axis |-> KeyAxis(s.axis.t, s.in.x),
     chk |-> ShapeCheck(KeyAxis(s.axis.t, s.in.x), s.in.x, s.in.gamma)] @@ s

\* expander, mode and use_cudnn, as far as the call gets
ForwardMode(s) ==
    [f2 |-> [s.f1 EXCEPT !.axis = s.axis, !.key_axis = s.key_axis],
     expander |-> IF s.chk = "ok" THEN Expander(s.key_axis, s.in.x, s.in.gamma) ELSE <<>>,
     raises |-> BNModeRaises(s.in.x, s.in.gamma, s.key_axis),
     mode |-> IF s.chk = "ok" /\ ~BNModeRaises(s.in.x, s.in.gamma, s.key_axis)
              THEN BNMode(s.in.x, s.in.gamma, s.key_axis)
              ELSE NoMode] @@ s

ForwardAttrs(s) ==
    [f3 |-> [s.f2 EXCEPT !.expander = s.expander],
     f4 |-> [s.f2 EXCEPT !.expander = s.expander, !.mode = s.mode,
                         !.use_cudnn = CanUseCudnn(s.mode, s.in.xp, s.cudnn)]] @@ s

ForwardPath(s) ==
    IF s.chk # "ok" THEN Outcome(s.f2, s.h1, s.chk, <<>>)
    ELSE IF s.raises THEN Outcome(s.f3, s.h1, "IndexError", <<>>)
    ELSE IF s.f4.use_cudnn /\ ~CudnnBuffersFit(s.f4, s.h1, s.in)
         THEN Outcome(s.f4, s.h1, "undefined", <<>>)
    ELSE IF s.f4.use_cudnn THEN ForwardCudnn(s.f4, s.h1, s.in)
    ELSE ForwardGeneric(s.f4, s.h1, s.in)

\* BatchNormalization.forward
Forward(f, h, in, cudnn) ==
    ForwardPath(ForwardAttrs(ForwardMode(ForwardKeyAxis(ForwardResolve(f, h, in, cudnn)))))

\* --------------------------------------- BatchNormalizationGrad.forward
\* inv_m = gamma.dtype.type(1. / (x.size // gamma.size))
InvM(x, gamma) == Q(1, Size(x) \div Size(gamma))
Neg(a) == Scale(QInt(-1), a)

\* the variant that takes the generic path whatever forward chose
BatchNormalizationGradGeneric(f) ==
    [kind |-> "train", eps |-> f.eps, use_cudnn |-> FALSE, mode |-> f.mode,
     expander |-> f.expander, axis |-> f.axis.t, mean |-> f.mean,
     inv_std |-> f.inv_std, inv_var |-> NoRef, key_axis |-> f.key_axis,
     gamma_over_std |-> NoneArr, inputs |-> <<>>, outputs |-> <<>>]

\* BatchNormalizationGrad.__init__, as BatchNormalization.backward calls
\* it: the object's attributes at that moment, mean and inv_std by
\* reference
BatchNormalizationGrad(f) ==
    [kind |-> "train", eps |-> f.eps, use_cudnn |-> f.use_cudnn, mode |-> f.mode,
     expander |-> f.expander, axis |-> f.axis.t, mean |-> f.mean,
     inv_std |-> f.inv_std, inv_var |-> NoRef, key_axis |-> f.key_axis,
     gamma_over_std |-> NoneArr, inputs |-> <<>>, outputs |-> <<>>]

\* the first failure among the arrays of a result, "ok" when there is none
RECURSIVE FirstErr(_)
FirstErr(out) ==
    IF out = <<>> THEN "ok"
    ELSE IF ~Head(out).ok THEN Head(out).err
    ELSE FirstErr(Tail(out))

\* BatchNormalizationGrad.forward, the operands: on the accelerated path
\* libcudnn.batchNormalizationBackward reads the saved mean and inverse
\* standard deviation and reduces over every axis but the channel axis
GradOperands(g, h, x, gamma, gy, xp) ==
    [g |-> g, x |-> x, gamma |-> gamma, gy |-> gy,
     xp |-> IF g.use_cudnn THEN "cupy" ELSE xp,
     axis |-> IF g.use_cudnn THEN CudnnAxis(x, g.key_axis) ELSE g.axis,
     mean |-> h[g.mean], inv_std |-> h[g.inv_std],
     inv_m |-> Scalar(InvM(x, gamma))]

\* gbeta = gy.sum(axis); x_hat = _x_hat(x, mean[expander], inv_std[expander])
GradSums(s) ==
    [gbeta |-> Sum(s.gy, s.axis),
     x_hat |-> XHat(s.x, GetItem(s.mean, s.g.expander),
                    GetItem(s.inv_std, s.g.expander))] @@ s

\* ggamma = (gy * x_hat).sum(axis)
GradGamma(s) == [ggamma |-> Sum(Mul(s.gy, s.x_hat), s.axis)] @@ s

\* gy - (x_hat * ggamma[expander] + gbeta[expander]) * inv_m
GradInner(s) ==
    [inner |-> Sub(s.gy, Mul(Add(Mul(s.x_hat, GetItem(s.ggamma, s.g.expander)),
                                 GetItem(s.gbeta, s.g.expander)), s.inv_m))] @@ s

\* gx on numpy and in the elementwise kernel; the outputs
GradOutputs(s) ==
    <<IF s.xp = "numpy"
      THEN Mul(GetItem(Mul(s.gamma, s.inv_std), s.g.expander), s.inner)
      ELSE Mul(Mul(GetItem(s.gamma, s.g.expander), GetItem(s.inv_std, s.g.expander)),
               s.inner),
      s.ggamma, s.gbeta>>

\* BatchNormalizationGrad.forward
GradForward(g, h, x, gamma, gy, xp) ==
    GradOutputs(GradInner(GradGamma(GradSums(GradOperands(g, h, x, gamma, gy, xp)))))

\* _zero_if_none
ZeroIfNone(a, shape, dtype) == IF IsNone(a) THEN Zeros(shape, dtype) ELSE a

\* r = 0 if ggx1 is None else (gx1 * ggx1).sum(axis=self.axis)
GradR(gx1, ggx1, axis) == IF IsNone(ggx1) THEN Scalar(QInt(0)) ELSE Sum(Mul(gx1, ggx1), axis)

\* BatchNormalizationGrad.backward: gg = <<ggx1, gggamma1, ggbeta1>>, each
\* an array or None. The auxiliary values and the handling of None
GradAux(g, h, gg) ==
    [g |-> g, x |-> g.inputs[1], gamma |-> g.inputs[2], gy |-> g.inputs[3],
     ggamma1 |-> g.outputs[2], inv_std |-> h[g.inv_std],
     inv_m |-> Scalar(InvM(g.inputs[1], g.inputs[2])),
     r |-> GradR(g.outputs[1], gg[1], g.axis),
     coeff |-> Mul(g.inputs[2], h[g.inv_std]),
     x_hat |-> XHat(g.inputs[1], GetItem(h[g.mean], g.expander),
                    GetItem(h[g.inv_std], g.expander)),
     ggx1 |-> ZeroIfNone(gg[1], g.inputs[1].shape, g.inputs[1].dtype),
     gggamma1 |-> ZeroIfNone(gg[2], g.inputs[2].shape, g.inputs[2].dtype),
     ggbeta1 |-> ZeroIfNone(gg[3], g.inputs[2].shape, g.inputs[2].dtype)]

\* coeff_m = coeff * inv_m; ggamma2 = r / gamma
GradCoeff(s) == [coeff_m |-> Mul(s.coeff, s.inv_m), ggamma2 |-> Div(s.r, s.gamma)] @@ s

\* gggamma2, ggbeta2
GradParams(s) ==
    [gggamma2 |-> Sub(s.gggamma1, Mul(s.coeff_m, Sum(Mul(s.x_hat, s.ggx1), s.g.axis))),
     ggbeta2 |-> Sub(s.ggbeta1, Mul(s.coeff_m, Sum(s.ggx1, s.g.axis)))] @@ s

\* gx_hat2
GradXHat(s) ==
    [gx_hat2 |-> Sub(Mul(GetItem(s.gggamma2, s.g.expander), s.gy),
                     Mul(GetItem(Mul(s.coeff_m, s.ggamma1), s.g.expander), s.ggx1))] @@ s

\* gstd2, gmean2
GradMoments(s) ==
    [gstd2 |-> Mul(Neg(s.inv_std), Add(s.r, Sum(Mul(s.x_hat, s.gx_hat2), s.g.axis))),
     gmean2 |-> Mul(Neg(s.inv_std), Sum(s.gx_hat2, s.g.axis))] @@ s

\* gx2, ggamma2, ggy2
GradSecond(s) ==
    <<Add(Mul(GetItem(s.inv_std, s.g.expander), s.gx_hat2),
          Mul(s.inv_m, Add(GetItem(s.gmean2, s.g.expander),
                           Mul(s.x_hat, GetItem(s.gstd2, s.g.expander))))),
      s.ggamma2,
      Add(Add(Mul(GetItem(s.gggamma2, s.g.expander), s.x_hat),
              GetItem(s.ggbeta2, s.g.expander)),
          Mul(GetItem(s.coeff, s.g.expander), s.ggx1))>>

GradBackward(g, h, gg) ==
    GradSecond(GradMoments(GradXHat(GradParams(GradCoeff(GradAux(g, h, gg))))))

\* -------------------------------------- FixedBatchNormalization.forward
\* xp.reciprocal and xp.sqrt
Reciprocal(a) == Map(LAMBDA q : QDiv(QInt(1), q), a)
Sqrt(a) == Map(QSqrt, a)

\* FixedBatchNormalization.forward, up to the choice of the path:
\* in = [x, gamma, beta, mean, var, xp]
FixedResolve(f, h, in, cudnn) ==
    [in |-> in, cudnn |-> cudnn, h1 |-> h, f1 |-> f,
     axis |-> ResolveAxis(f.axis, in.x, in.gamma)]

\* the generic path: gamma[expander], beta[expander], var + eps, inv_var
FixedStats(f, h, in) ==
    [f |-> f, h |-> h, in |-> in,
     gamma |-> GetItem(in.gamma, f.expander), beta |-> GetItem(in.beta, f.expander),
     inv_var |-> Reciprocal(AddEps(in.var, f.eps))]

\* inv_std, kept with inv_var on the object
FixedCache(s) ==
    [inv_std |-> Sqrt(s.inv_var),
     hA |-> s.h \o <<s.inv_var, Sqrt(s.inv_var)>>,
     fA |-> [s.f EXCEPT !.inv_var = Len(s.h) + 1, !.inv_std = Len(s.h) + 2]] @@ s

FixedOutput(s) ==
    [y |-> ApplyBnFwd(s.in.xp, s.in.x, GetItem(s.in.mean, s.f.expander),
                      GetItem(s.inv_std, s.f.expander), s.gamma, s.beta)] @@ s

FixedOutcome(s) ==
    IF ~s.gamma.ok THEN Outcome(s.f, s.h, "IndexError", <<>>)
    ELSE IF ~s.beta.ok THEN Outcome(s.f, s.h, "IndexError", <<>>)
    ELSE Outcome(s.fA, s.hA, FirstErr(<<s.y>>), <<s.y>>)

FixedForwardGeneric(f, h, in) == FixedOutcome(FixedOutput(FixedCache(FixedStats(f, h, in))))

\* the accelerated path: libcudnn.batchNormalizationForwardInference
\* computes y from mean, var and eps; inv_std, inv_var are left as they
\* were
FixedCudnnOutput(f, h, in) ==
    [f |-> f, h |-> h,
     y |-> ApplyBnFwd("cupy", in.x, GetItem(in.mean, f.expander),
                      GetItem(Map(QPowNegHalf, AddEps(in.var, f.eps)), f.expander),
                      GetItem(in.gamma, f.expander), GetItem(in.beta, f.expander))]

FixedCudnnOutcome(s) == Outcome(s.f, s.h, FirstErr(<<s.y>>), <<s.y>>)

FixedForwardCudnn(f, h, in) == FixedCudnnOutcome(FixedCudnnOutput(f, h, in))

FixedPath(s) ==
    IF s.chk # "ok" THEN Outcome(s.f2, s.h1, s.chk, <<>>)
    ELSE IF s.raises THEN Outcome(s.f3, s.h1, "IndexError", <<>>)
    ELSE IF CanUseCudnn(s.mode, s.in.xp, s.cudnn) THEN FixedForwardCudnn(s.f3, s.h1, s.in)
    ELSE FixedForwardGeneric(s.f3, s.h1, s.in)

\* FixedBatchNormalization.forward
FixedForward(f, h, in, cudnn) ==
    FixedPath(ForwardAttrs(ForwardMode(ForwardKeyAxis(FixedResolve(f, h, in, cudnn)))))

\* FixedBatchNormalizationGrad.__init__, as FixedBatchNormalization.backward
\* calls it
FixedBatchNormalizationGrad(f) ==
    [kind |-> "fixed", eps |-> f.eps, use_cudnn |-> FALSE, mode |-> NoMode,
     expander |-> f.expander, axis |-> f.axis.t, mean |-> NoRef,
     inv_std |-> f.inv_std, inv_var |-> f.inv_var, key_axis |-> f.key_axis,
     gamma_over_std |-> NoneArr, inputs |-> <<>>, outputs |-> <<>>]

\* FixedBatchNormalizationGrad.forward: inv_var is recomputed when
\* inv_std or inv_var is None
FixedGradVar(g, h, x, gamma, mean, var, gy) ==
    [g |-> g, h |-> h, x |-> x, gamma |-> gamma, mean |-> mean, gy |-> gy,
     recompute |-> g.inv_std = NoRef \/ g.inv_var = NoRef,
     inv_var |-> IF g.inv_std = NoRef \/ g.inv_var = NoRef
                 THEN Reciprocal(AddEps(var, g.eps))
                 ELSE h[g.inv_var]]

\* and inv_std with it
FixedGradStd(s) ==
    [inv_std |-> IF s.recompute THEN Sqrt(s.inv_var) ELSE s.h[s.g.inv_std]] @@ s

\* gamma_over_std, x_hat, gbeta; the object and the storage after the call
FixedGradSums(s) ==
    [gamma_over_std |-> Mul(s.gamma, s.inv_std),
     x_hat |-> XHat(s.x, GetItem(s.mean, s.g.expander), GetItem(s.inv_std, s.g.expander)),
     gbeta |-> Sum(s.gy, s.g.axis),
     h1 |-> IF s.recompute THEN s.h \o <<s.inv_var, s.inv_std>> ELSE s.h,
     g1 |-> IF s.recompute
            THEN [s.g EXCEPT !.inv_var = Len(s.h) + 1, !.inv_std = Len(s.h) + 2]
            ELSE s.g] @@ s

\* ggamma
FixedGradGamma(s) == [ggamma |-> Sum(Mul(s.x_hat, s.gy), s.g.axis)] @@ s

\* the gradient function after the call and its outputs
\* <<gx, ggamma, gbeta, gmean, gvar>>
FixedGradOutputs(s) ==
    [g |-> [s.g1 EXCEPT !.gamma_over_std = s.gamma_over_std], heap |-> s.h1,
     out |-> <<Mul(GetItem(s.gamma_over_std, s.g.expander), s.gy),
               s.ggamma, s.gbeta,
               Mul(Neg(s.gamma_over_std), s.gbeta),
               Mul(Mul(Mul(Scalar(Q(-1, 2)), s.gamma), s.inv_var), s.ggamma)>>]

FixedGradForward(g, h, x, gamma, mean, var, gy) ==
    FixedGradOutputs(FixedGradGamma(FixedGradSums(FixedGradStd(
        FixedGradVar(g, h, x, gamma, mean, var, gy)))))

\* FixedBatchNormalizationGrad.backward:
\* gg = <<ggx1, gggamma1, ggbeta1, ggmean1, ggvar1>>, each an array or
\* None. The handling of None, x_hat, tmp and gamma_over_var
FixedGradAux(g, h, gg) ==
    [g |-> g, gamma |-> g.inputs[2], gy |-> g.inputs[5],
     ggamma1 |-> g.outputs[2], gbeta1 |-> g.outputs[3],
     inv_std |-> h[g.inv_std], inv_var |-> h[g.inv_var],
     ggx1 |-> ZeroIfNone(gg[1], g.inputs[1].shape, g.inputs[1].dtype),
     gggamma1 |-> ZeroIfNone(gg[2], g.inputs[2].shape, g.inputs[2].dtype),
     ggbeta1 |-> ZeroIfNone(gg[3], g.inputs[2].shape, g.inputs[2].dtype),
     ggmean1 |-> ZeroIfNone(gg[4], g.inputs[3].shape, g.inputs[3].dtype),
     tmp |-> Mul(Scalar(Q(-1, 2)),
                 ZeroIfNone(gg[5], g.inputs[3].shape, g.inputs[3].dtype)),
     x_hat |-> XHat(g.inputs[1], GetItem(g.inputs[3], g.expander),
                    GetItem(h[g.inv_std], g.expander)),
     gamma_over_var |-> Mul(g.inputs[2], h[g.inv_var])]

\* g_gamma_over_var, gggamma2, g_gamma_over_std, ggbeta2
FixedGradParams(s) ==
    [g_gamma_over_var |-> Mul(s.tmp, s.ggamma1),
     gggamma2 |-> Add(s.gggamma1, Mul(s.tmp, s.gamma_over_var)),
     g_gamma_over_std |-> Sub(Sum(Mul(s.ggx1, s.gy), s.g.axis), Mul(s.ggmean1, s.gbeta1)),
     ggbeta2 |-> Sub(s.ggbeta1, Mul(s.ggmean1, s.g.gamma_over_std))] @@ s

\* gx_hat, ggamma2
FixedGradXHat(s) ==
    [gx_hat |-> Mul(s.gy, GetItem(s.gggamma2, s.g.expander)),
     ggamma2 |-> Add(Mul(s.inv_var, s.g_gamma_over_var),
                     Mul(s.inv_std, s.g_gamma_over_std))] @@ s

\* gx2, ggamma2, gmean2, gvar2, ggy2
FixedGradSecond(s) ==
    <<Mul(GetItem(s.inv_std, s.g.expander), s.gx_hat),
      s.ggamma2,
      Mul(Neg(s.inv_std), Sum(s.gx_hat, s.g.axis)),
      Neg(Add(Mul(s.ggamma2, s.gamma_over_var),
              Mul(Mul(Scalar(Q(1, 2)), s.inv_var),
                  Sub(Sum(Mul(s.x_hat, s.gx_hat), s.g.axis),
                      Mul(s.g.gamma_over_std, s.g_gamma_over_std))))),
      Add(Add(Mul(GetItem(s.gggamma2, s.g.expander), s.x_hat),
              GetItem(s.ggbeta2, s.g.expander)),
          Mul(GetItem(s.g.gamma_over_std, s.g.expander), s.ggx1))>>

FixedGradBackward(g, h, gg) ==
    FixedGradSecond(FixedGradXHat(FixedGradParams(FixedGradAux(g, h, gg))))

\* ------------------------------------------------------------ the inputs
Coord0(i) == IF Len(i) = 0 THEN 0 ELSE i[1]
RECURSIVE SumSeq(_)
SumSeq(i) == IF i = <<>> THEN 0 ELSE Head(i) + SumSeq(Tail(i))

\* the arrays the calls are made with: x and the gradients follow one of
\* three patterns, the parameters one
Pattern(seed, i) ==
    IF seed = 0 THEN QInt(1)
    ELSE IF seed = 1 THEN QInt(IF Coord0(i) % 2 = 0 THEN 3 ELSE 1)
    ELSE QInt(IF SumSeq(i) % 2 = 0 THEN 1 ELSE -1)
Seeds == 0..2
PatArr(shape, dtype, seed) == Arr(shape, dtype, Tab(shape, LAMBDA i : Pattern(seed, i)))
GammaArr(shape, dtype) == Arr(shape, dtype, Tab(shape, LAMBDA i : QInt(2 + Coord0(i))))
BetaArr(shape, dtype) == Arr(shape, dtype, Tab(shape, LAMBDA i : QInt(1 - 2 * Coord0(i))))
MeanArr(shape, dtype) == Arr(shape, dtype, Tab(shape, LAMBDA i : QInt(Coord0(i))))
VarArr(shape, dtype) == Arr(shape, dtype, Tab(shape, LAMBDA i : QInt(1 - (Coord0(i) % 2))))

\* every shape of rank r with extents 1..MaxDim
ShapesOfRank(r) == [1..r -> 1..MaxDim]
ShapesUpTo(lo, hi) == UNION {ShapesOfRank(r) : r \in lo..hi}

Input(xs, gs, bs, dtype, gdtype, seed, xp) ==
    [x |-> PatArr(xs, dtype, seed), gamma |-> GammaArr(gs, gdtype),
     beta |-> BetaArr(bs, gdtype), mean |-> MeanArr(gs, gdtype),
     var |-> VarArr(gs, gdtype), xp |-> xp]

\* the inputs of the statistics runs: well-shaped batches of one or two
\* rows over two channels, every pattern, on either array module
StatInputs ==
    {Input(xs, <<2>>, <<2>>, "float32", "float32", seed, xp) :
        xs \in {<<1, 2>>, <<2, 2>>}, seed \in {0, 1}, xp \in {"numpy", "cupy"}}

\* eps: 9/16 makes var + eps a rational square for the variances 0 and 1
Eps == Q(9, 16)
Decays == {QInt(0), Q(1, 2), QInt(1)}
\* the caller's running_mean and running_var arrays
CallerMean == Arr(<<2>>, "float32", Tab(<<2>>, LAMBDA i : QInt(3 + i[1])))
CallerVar == Arr(<<2>>, "float32", Tab(<<2>>, LAMBDA i : QInt(5)))

NoneAxis == [type |-> "none", v |-> <<>>]
IntAxis(a) == [type |-> "int", v |-> <<a>>]
TupleAxis(t) == [type |-> "tuple", v |-> t]
\* a list of ints, a str (v: the code points of its characters), a tuple
\* of floats (v: their values, whole numbers here), a float, a set of ints
ListAxis(t) == [type |-> "list", v |-> t]
StrAxis(t) == [type |-> "str", v |-> t]
FloatsAxis(t) == [type |-> "floats", v |-> t]
FloatAxis(a) == [type |-> "float", v |-> <<a>>]
SetAxis(t) == [type |-> "set", v |-> t]

\* ret: the last call, what it was handed and what it gave back
NoRet == [op |-> "init", status |-> "ok", out |-> <<>>, in |-> <<>>, k |-> 0, gg |-> <<>>]
Ret(op, status, out, in) ==
    [op |-> op, status |-> status, out |-> out, in |-> in, k |-> 0, gg |-> <<>>]

\* the state after construction: the caller's arrays are storage 1 and 2
InitWith(envs, kinds, decays, axes, supplied) ==
    /\ env \in envs
    /\ heap = <<CallerMean, CallerVar>>
    /\ \E kind \in kinds, axis \in axes :
          \E decay \in IF kind = "fixed" THEN {QInt(0)} ELSE decays,
             sup \in IF kind = "fixed" THEN {<<NoRef, NoRef>>} ELSE supplied :
             ctor = [kind |-> kind, eps |-> Eps, decay |-> decay, axis |-> axis,
                     mean |-> sup[1], var |-> sup[2]]
    /\ self = IF ctor.kind = "train"
              THEN BatchNormalization(ctor.eps, ctor.mean, ctor.var, ctor.decay, ctor.axis)
              ELSE FixedBatchNormalization(ctor.eps, ctor.axis)
    /\ grads = <<>>
    /\ ret = NoRet
    /\ nfwd = 0
    /\ nbwd = 0
    /\ writer = "none"

\* the calls are modelled on results that are exact in the rationals
Exact(h, out) ==
    /\ \A r \in 1..Len(h) : Finite(h[r])
    /\ \A r \in 1..Len(out) : Finite(out[r])

\* an application of the function: check_type_forward when type checking
\* is on, then forward
ApplyForward(f, h, in, e) ==
    IF e.type_check /\ ~CheckTypeForward(f, in)
    THEN Outcome(f, h, "InvalidType", <<>>)
    ELSE Forward(f, h, in, e.cudnn)

ApplyFixedForward(f, h, in, e) ==
    IF e.type_check /\ ~FixedCheckTypeForward(f, in)
    THEN Outcome(f, h, "InvalidType", <<>>)
    ELSE FixedForward(f, h, in, e.cudnn)

\* the path that has the cache after a forward call with outcome o on the
\* object f: the generic path binds self.mean to a new array, the
\* accelerated path allocates the two arrays when there are none and has
\* the library write into them; a call that does neither leaves the cache
\* with the path that had it
PathName(use_cudnn) == IF use_cudnn THEN "cudnn" ELSE "generic"
CacheWriter(f, o, prev) ==
    IF o.self.mean # f.mean \/ (o.status = "ok" /\ o.self.use_cudnn)
    THEN PathName(o.self.use_cudnn)
    ELSE prev

\* a call of a BatchNormalization instance on (x, gamma, beta); the inputs
\* are retained when forward returns
DoForward(inputs) ==
    /\ self.kind = "train"
    /\ nfwd < MaxForward
    /\ \E in \in inputs :
          \E o \in {ApplyForward(self, heap, in, env)} :
              /\ o.status # "undefined"
              /\ o.status = "ok" => Exact(o.heap, o.out)
              /\ self' = IF o.status = "ok"
                         THEN [o.self EXCEPT !.inputs = <<in.x, in.gamma>>,
                                             !.xp = in.xp,
                                             !.y_shape = o.out[1].shape]
                         ELSE o.self
              /\ heap' = o.heap
              /\ ret' = Ret("forward", o.status, o.out, in)
              /\ writer' = CacheWriter(self, o, writer)
    /\ nfwd' = nfwd + 1
    /\ UNCHANGED <<env, ctor, grads, nbwd>>

\* the gradient handed to backward has the shape and dtype of the output
Gy(seed) == PatArr(self.y_shape, self.inputs[1].dtype, seed)

\* BatchNormalization.backward: a new BatchNormalizationGrad applied to the
\* retained x and gamma and to gy
DoBackward(seeds) ==
    /\ self.kind = "train"
    /\ self.inputs # NoInputs
    /\ nbwd < MaxBackward
    /\ \E seed \in seeds :
          \E g \in {BatchNormalizationGrad(self)} :
             \E out \in {GradForward(g, heap, self.inputs[1], self.inputs[2],
                                     Gy(seed), self.xp)} :
                /\ FirstErr(out) = "ok" => Exact(<<>>, out)
                /\ grads' = IF FirstErr(out) = "ok"
                            THEN Append(grads,
                                        [g EXCEPT !.inputs = <<self.inputs[1],
                                                               self.inputs[2], Gy(seed)>>,
                                                  !.outputs = out])
                            ELSE grads
                /\ ret' = Ret("backward", FirstErr(out), out, <<>>)
    /\ nbwd' = nbwd + 1
    /\ UNCHANGED <<env, ctor, self, heap, nfwd, writer>>

\* the upstream gradients of a second-order call: gg[n] is None where n is
\* in `absent`, an array shaped like the n-th first-order output elsewhere
UpstreamGrads(g, absent) ==
    Tup(Len(g.outputs), LAMBDA n :
        IF n \in absent THEN NoneArr
        ELSE PatArr(g.outputs[n].shape, g.outputs[n].dtype, 1))

\* BatchNormalizationGrad.backward on the gradient function of the last
\* backward call
DoGradBackward(absents) ==
    /\ grads # <<>>
    /\ grads[Len(grads)].kind = "train"
    /\ nbwd < MaxBackward
    /\ \E absent \in absents :
          \E gg \in {UpstreamGrads(grads[Len(grads)], absent)} :
             \E out \in {GradBackward(grads[Len(grads)], heap, gg)} :
                /\ FirstErr(out) = "ok" => Exact(<<>>, out)
                /\ ret' = [op |-> "grad_backward", status |-> FirstErr(out),
                           out |-> out, in |-> <<>>, k |-> Len(grads), gg |-> gg]
    /\ nbwd' = nbwd + 1
    /\ UNCHANGED <<env, ctor, self, heap, grads, nfwd, writer>>

\* FunctionNode.apply on a FixedBatchNormalization
DoFixedForward(inputs) ==
    /\ self.kind = "fixed"
    /\ nfwd < MaxForward
    /\ \E in \in inputs :
          \E o \in {ApplyFixedForward(self, heap, in, env)} :
              /\ o.status = "ok" => Exact(o.heap, o.out)
              /\ self' = IF o.status = "ok"
                         THEN [o.self EXCEPT !.inputs = <<in.x, in.gamma, in.mean, in.var>>,
                                             !.xp = in.xp,
                                             !.y_shape = o.out[1].shape]
                         ELSE o.self
              /\ heap' = o.heap
              /\ ret' = Ret("forward", o.status, o.out, in)
    /\ nfwd' = nfwd + 1
    /\ UNCHANGED <<env, ctor, grads, nbwd, writer>>

\* FixedBatchNormalization.backward
DoFixedBackward(seeds) ==
    /\ self.kind = "fixed"
    /\ self.inputs # NoInputs
    /\ nbwd < MaxBackward
    /\ \E seed \in seeds :
          \E o \in {FixedGradForward(FixedBatchNormalizationGrad(self), heap,
                                     self.inputs[1], self.inputs[2], self.inputs[3],
                                     self.inputs[4], Gy(seed))} :
             /\ FirstErr(o.out) = "ok" => Exact(o.heap, o.out)
             /\ grads' = IF FirstErr(o.out) = "ok"
                         THEN Append(grads,
                                     [o.g EXCEPT !.inputs = self.inputs \o <<Gy(seed)>>,
                                                 !.outputs = o.out])
                         ELSE grads
             /\ heap' = IF FirstErr(o.out) = "ok" THEN o.heap ELSE heap
             /\ ret' = Ret("backward", FirstErr(o.out), o.out, <<>>)
    /\ nbwd' = nbwd + 1
    /\ UNCHANGED <<env, ctor, self, nfwd, writer>>

\* FixedBatchNormalizationGrad.backward
DoFixedGradBackward(absents) ==
    /\ grads # <<>>
    /\ grads[Len(grads)].kind = "fixed"
    /\ nbwd < MaxBackward
    /\ \E absent \in absents :
          \E gg \in {UpstreamGrads(grads[Len(grads)], absent)} :
             \E out \in {FixedGradBackward(grads[Len(grads)], heap, gg)} :
                /\ FirstErr(out) = "ok" => Exact(<<>>, out)
                /\ ret' = [op |-> "grad_backward", status |-> FirstErr(out),
                           out |-> out, in |-> <<>>, k |-> Len(grads), gg |-> gg]
    /\ nbwd' = nbwd + 1
    /\ UNCHANGED <<env, ctor, self, heap, grads, nfwd, writer>>

\* the construction of the function object, as batch_normalization and
\* fixed_batch_normalization do it before they apply it
NoArgs == [kind |-> "none"]
DoInit(kinds, epss, axes) ==
    /\ self = NoObject
    /\ ret = NoRet
    /\ \E kind \in kinds, eps \in epss, axis \in axes :
          \E a \in {[kind |-> kind, eps |-> eps,
                     decay |-> IF kind = "fixed" THEN QInt(0) ELSE Q(1, 2),
                     axis |-> axis, mean |-> NoRef, var |-> NoRef]} :
             \E o \in {IF kind = "train" THEN BatchNormalizationInit(a, env.cudnn)
                       ELSE FixedBatchNormalizationInit(a, env.cudnn)} :
                /\ ctor' = a
                /\ self' = o.self
                /\ ret' = Ret("__init__", o.status, <<>>, <<>>)
    /\ UNCHANGED <<env, heap, grads, nfwd, nbwd, writer>>

\* the state before construction
InitNone ==
    /\ env \in [cudnn : BOOLEAN, type_check : {TRUE}]
    /\ heap = <<CallerMean, CallerVar>>
    /\ ctor = NoArgs
    /\ self = NoObject
    /\ grads = <<>>
    /\ ret = NoRet
    /\ nfwd = 0
    /\ nbwd = 0
    /\ writer = "none"

\* ------------------------------------------------------ specifications
Envs(cudnns, checks) == [cudnn : cudnns, type_check : checks]
Both == {<<NoRef, NoRef>>, <<1, 2>>}
AnySupplied == {<<NoRef, NoRef>>, <<1, NoRef>>, <<NoRef, 2>>, <<1, 2>>}

\* ---- running statistics: every decay, every combination of supplied
\* running statistics, both paths, legacy axis, well-shaped inputs
InitStats ==
    InitWith(Envs(BOOLEAN, {TRUE}), {"train"}, Decays, {NoneAxis}, AnySupplied)

NextStats == DoForward(StatInputs)

SpecStats == InitStats /\ [][NextStats]_vars

\* a successful forward call of the generic path, seen as a step
GenericForwardStep ==
    /\ nfwd' = nfwd + 1
    /\ ret'.status = "ok"
    /\ ~self'.use_cudnn

\* the running statistic a call starts from: zeros like gamma when the
\* buffer does not exist yet
Prior(r, gamma) == IF r = NoRef THEN Zeros(gamma.shape, gamma.dtype) ELSE heap[r]

SameValues(a, b) == a.ok /\ b.ok /\ a.shape = b.shape /\ a.v = b.v

\* decay * prior + weight * stat
Blend(decay, prior, weight, stat) == Add(Scale(decay, prior), Scale(weight, stat))

BothOrNeither == (ctor.mean = NoRef) <=> (ctor.var = NoRef)

\* C1: on the generic path a forward call leaves
\* running_mean = decay * running_mean + (1 - decay) * mean and
\* running_var = decay * running_var + (1 - decay) * adjust * var, where mean
\* and var are the batch mean and the batch variance of x over the
\* aggregation axes and adjust = m / max(m - 1, 1), m = x.size / gamma.size.
C1_RunningUpdate ==
    [][(GenericForwardStep /\ BothOrNeither) =>
        LET x == self'.inputs[1]
            gamma == self'.inputs[2]
            m == Size(x) \div Size(gamma)
            adjust == Q(m, Max(m - 1, 1))
            w == QSub(QInt(1), ctor.decay)
        IN  /\ SameValues(heap'[self'.running_mean],
                          Blend(ctor.decay, Prior(self.running_mean, gamma),
                                w, Mean(x, self'.axis.t)))
            /\ SameValues(heap'[self'.running_var],
                          Blend(ctor.decay, Prior(self.running_var, gamma),
                                QMul(w, adjust), Var(x, self'.axis.t)))]_vars

\* C2: after the first forward call a decay of 1 leaves the running
\* statistics as they were, and a decay of 0 leaves running_mean equal to the
\* batch mean and running_var equal to adjust times the batch variance.
C2_DecayExtremes ==
    [][(nfwd = 0 /\ nfwd' = 1 /\ ret'.status = "ok" /\ BothOrNeither) =>
        LET x == self'.inputs[1]
            gamma == self'.inputs[2]
        IN  /\ ctor.decay = QInt(1) =>
                 /\ SameValues(heap'[self'.running_mean], Prior(self.running_mean, gamma))
                 /\ SameValues(heap'[self'.running_var], Prior(self.running_var, gamma))
            /\ ctor.decay = QInt(0) =>
                 /\ SameValues(heap'[self'.running_mean], Mean(x, self'.axis.t))
                 /\ SameValues(heap'[self'.running_var],
                               Scale(Adjust(x, gamma), Var(x, self'.axis.t)))]_vars

\* what a forward step does to one running statistic: r is the buffer
\* before the call, r2 after it, supplied the constructor's argument, stat
\* the batch statistic the update blends in with weight w
RunningStep(r, r2, supplied, w, stat) ==
    LET gamma == self'.inputs[2]
    IN  /\ supplied # NoRef => r2 = supplied
        /\ r # NoRef => r2 = r
        /\ ret'.status # "InvalidType" => r2 # NoRef
        /\ (r = NoRef /\ ret'.status = "ok") =>
              r2 > Len(heap) /\ heap'[r2].shape = gamma.shape
        /\ ret'.status = "ok" =>
              SameValues(heap'[r2], Blend(ctor.decay, Prior(r, gamma), w, stat))

\* both running statistics over a forward step; the variance term is the
\* one the update reads on the path taken
RunningSteps ==
    LET x == self'.inputs[1]
        gamma == self'.inputs[2]
        w == QSub(QInt(1), ctor.decay)
        var == IF self'.use_cudnn THEN Var(x, self'.axis.t)
               ELSE AddEps(Var(x, self'.axis.t), ctor.eps)
    IN  /\ RunningStep(self.running_mean, self'.running_mean, ctor.mean,
                       w, Mean(x, self'.axis.t))
        /\ RunningStep(self.running_var, self'.running_var, ctor.var,
                       QMul(w, Adjust(x, gamma)), var)

\* C3 as stated: each running statistic that is absent at construction is
\* created as zeros shaped like gamma by the first forward call, each one
\* that is supplied is kept, none is re-initialised later, and every
\* successful call blends the batch statistic into the previous value, so
\* that n calls give the n-fold exponential-decay accumulation.
C3_LazyInitEach ==
    [][nfwd' = nfwd + 1 => RunningSteps]_vars

\* C3 (amended): the same, for an instance constructed with both running
\* statistics absent or both supplied.
C3_LazyInit ==
    [][(nfwd' = nfwd + 1 /\ BothOrNeither) => RunningSteps]_vars

\* two successful calls on an instance constructed without statistics
C3_Witness ==
    /\ ctor.mean = NoRef /\ ctor.var = NoRef
    /\ ctor.decay = Q(1, 2)
    /\ nfwd = 2
    /\ ret.status = "ok"
    /\ self.running_mean > 2 /\ self.running_var > 2

\* ---- axis resolution: legacy and explicit axis specifications, inputs of
\* every rank up to MaxRank, channel parameters of rank 0 to 2, type
\* checking on and off, both modes
XShapes == {Tup(r, LAMBDA k : 2) : r \in 1..MaxRank}
GShapes == {<<>>, <<1>>, <<2>>, <<2, 2>>}

AxesInputs ==
    {Input(xs, gs, gs, "float32", "float32", 1, IF env.cudnn THEN "cupy" ELSE "numpy") :
        xs \in XShapes, gs \in GShapes}

AxisSpecs == {NoneAxis, IntAxis(0), TupleAxis(<<0, 1>>), TupleAxis(<<0, 2>>)}

InitAxes ==
    InitWith(Envs(BOOLEAN, BOOLEAN), {"train", "fixed"}, {Q(1, 2)}, AxisSpecs,
             {<<NoRef, NoRef>>})

NextAxes ==
    \/ DoForward(AxesInputs)
    \/ DoFixedForward(AxesInputs)

SpecAxes == InitAxes /\ [][NextAxes]_vars

\* a step in which forward (of either mode) was entered
ForwardEntered == nfwd' = nfwd + 1 /\ ret'.status # "InvalidType"

\* C4: on an instance constructed with axis None every forward call, the
\* second and later ones included, reduces over {0} \cup {M+1..R-1} and
\* keeps the axes (1, ..., M), R and M being the ranks of that call's x and
\* gamma.  Stated of the calls that pass the type check and complete.
C4_LegacyAxisEveryCall ==
    [][(nfwd' = nfwd + 1 /\ ret'.status = "ok" /\ env.type_check
            /\ ctor.axis.type = "none"
            /\ Len(ret'.in.x.shape) >= Len(ret'.in.gamma.shape) + 1) =>
        LET R == Len(ret'.in.x.shape)
            M == Len(ret'.in.gamma.shape)
        IN  /\ Elems(self'.axis.t) = {0} \cup ((M + 1)..(R - 1))
            /\ Len(self'.axis.t) = R - M
            /\ self'.key_axis = Tup(M, LAMBDA k : k)]_vars

\* the relations between the resolved axes and the shapes
IsPartition(axis, key_axis, R) ==
    /\ Elems(axis) \cup Elems(key_axis) = 0..(R - 1)
    /\ Elems(axis) \cap Elems(key_axis) = {}
    /\ Cardinality(Elems(axis)) = Len(axis)

KeysMatch(key_axis, x, gamma) ==
    /\ Len(key_axis) = Len(gamma.shape)
    /\ \A i \in 1..Len(key_axis) : gamma.shape[i] = x.shape[key_axis[i] + 1]

\* C5: when the type check and forward complete, axis and key_axis
\* partition {0..R-1}, there are as many key axes as gamma has dimensions,
\* and gamma.shape[i] = x.shape[j] for the i-th key axis j: an input that
\* breaks one of these is not normalised.
C5_KeyAxesMatchGamma ==
    [][(nfwd' = nfwd + 1 /\ ret'.status = "ok" /\ env.type_check) =>
        /\ IsPartition(self'.axis.t, self'.key_axis, Len(ret'.in.x.shape))
        /\ KeysMatch(self'.key_axis, ret'.in.x, ret'.in.gamma)]_vars

\* C6: a training forward call whose gamma differs from x at a resolved key
\* axis raises the shape-mismatch error and leaves the running statistics
\* and the cache as they were: nothing created, nothing written.
C6_MismatchLeavesState ==
    [][(ForwardEntered /\ self.kind = "train"
            /\ Len(self'.key_axis) = Len(ret'.in.gamma.shape)
            /\ ~KeysMatch(self'.key_axis, ret'.in.x, ret'.in.gamma)) =>
        /\ ret'.status = "shape mismatch"
        /\ self'.running_mean = self.running_mean
        /\ self'.running_var = self.running_var
        /\ self'.mean = self.mean
        /\ self'.inv_std = self.inv_std
        /\ heap' = heap]_vars

\* the instance the constructor arguments give with another axis argument
Construct(axis) ==
    IF ctor.kind = "train"
    THEN BatchNormalization(ctor.eps, ctor.mean, ctor.var, ctor.decay, axis)
    ELSE FixedBatchNormalization(ctor.eps, axis)

Apply(f, h, in, e) ==
    IF f.kind = "train" THEN ApplyForward(f, h, in, e) ELSE ApplyFixedForward(f, h, in, e)

\* C8: a first call that completes on an instance constructed with axis
\* None gives what the same call gives on an instance constructed with the
\* explicit axis (0, M+1, ..., R-1): the same status and output, the same
\* axis, key_axis, expander and path, the same running statistics and cache.
C8_LegacyEqualsExplicit ==
    [][(nfwd = 0 /\ nfwd' = 1 /\ ctor.axis.type = "none" /\ ret'.status = "ok"
            /\ Len(ret'.in.x.shape) >= Len(ret'.in.gamma.shape) + 1) =>
        LET R == Len(ret'.in.x.shape)
            M == Len(ret'.in.gamma.shape)
            explicit == TupleAxis(<<0>> \o Tup(R - M - 1, LAMBDA k : M + k))
            twin == Apply(Construct(explicit), heap, ret'.in, env)
        IN  /\ twin.status = ret'.status
            /\ twin.out = ret'.out
            /\ twin.heap = heap'
            /\ twin.status = "ok" =>
                 /\ twin.self.axis = self'.axis
                 /\ twin.self.key_axis = self'.key_axis
                 /\ twin.self.expander = self'.expander
                 /\ twin.self.use_cudnn = self'.use_cudnn
                 /\ twin.self.running_mean = self'.running_mean
                 /\ twin.self.running_var = self'.running_var
                 /\ twin.self.mean = self'.mean
                 /\ twin.self.inv_std = self'.inv_std]_vars

\* ---- calls: a training instance on well-shaped batches of two rows over
\* two channels, on either path, its backward and its second-order backward
CallInputs ==
    {Input(<<2, 2>>, <<2>>, <<2>>, "float32", "float32", seed,
           IF env.cudnn THEN "cupy" ELSE "numpy") : seed \in {1, 2}}

InitCalls == InitWith(Envs(BOOLEAN, {TRUE}), {"train"}, {Q(1, 2)}, {NoneAxis}, Both)

NextCalls ==
    \/ DoForward(CallInputs)
    \/ DoBackward({1, 2})
    \/ DoGradBackward({{}, {1, 2, 3}})

SpecCalls == InitCalls /\ [][NextCalls]_vars

\* ---- second order: both kinds of instance, legacy and explicit axis,
\* parameters of one and of two axes, every subset of absent upstream
\* gradients
GradInputs ==
    {Input(<<2, 2>>, gs, gs, "float32", "float32", 1,
           IF env.cudnn THEN "cupy" ELSE "numpy") : gs \in {<<2>>, <<2, 1>>, <<2, 2>>}}

InitGrad ==
    InitWith(Envs(BOOLEAN, {TRUE}), {"train", "fixed"}, {Q(1, 2)},
             {NoneAxis, IntAxis(0)}, {<<NoRef, NoRef>>})

NextGrad ==
    \/ DoForward(GradInputs)
    \/ DoBackward({2})
    \/ DoGradBackward(SUBSET (1..3))
    \/ DoFixedForward(GradInputs)
    \/ DoFixedBackward({2})
    \/ DoFixedGradBackward(SUBSET (1..5))

SpecGrad == InitGrad /\ [][NextGrad]_vars

\* a second-order backward call, seen as a step
GradBackwardStep == ret'.op = "grad_backward" /\ nbwd' = nbwd + 1

\* the upstream gradients with each absent one supplied as a zero tensor
\* shaped like the corresponding first-order output
ZeroFilled(g, gg) ==
    Tup(Len(gg), LAMBDA n :
        IF IsNone(gg[n]) THEN Zeros(g.outputs[n].shape, g.outputs[n].dtype) ELSE gg[n])

SecondOrder(g, h, gg) ==
    IF g.kind = "train" THEN GradBackward(g, h, gg) ELSE FixedGradBackward(g, h, gg)

\* C7: whichever upstream gradients of a second-order backward call are
\* None, in training and in fixed mode, the call returns what it returns
\* when each of them is an explicit zero tensor shaped like the first-order
\* output it belongs to, the same values in the same shapes, and the
\* absence raises nothing.
C7_AbsentIsZero ==
    [][GradBackwardStep =>
        LET g == grads[ret'.k]
            twin == SecondOrder(g, heap, ZeroFilled(g, ret'.gg))
        IN  /\ ret'.out = twin
            /\ FirstErr(twin) = "ok" => ret'.status = "ok"]_vars

\* a second-order call with every upstream gradient absent has returned
C7_Witness ==
    /\ ret.op = "grad_backward"
    /\ ret.status = "ok"
    /\ \A n \in 1..Len(ret.gg) : IsNone(ret.gg[n])
    /\ Len(ret.gg) = 5

\* C7 on the calls whose key axes match gamma, as many of them as gamma has
\* dimensions and of gamma's extents
C7_AbsentIsZeroMatched ==
    [][(GradBackwardStep
            /\ KeysMatch(grads[ret'.k].key_axis, grads[ret'.k].inputs[1],
                         grads[ret'.k].inputs[2])) =>
        LET g == grads[ret'.k]
            twin == SecondOrder(g, heap, ZeroFilled(g, ret'.gg))
        IN  /\ ret'.out = twin
            /\ FirstErr(twin) = "ok" => ret'.status = "ok"]_vars

\* a first-order backward call, seen as a step
BackwardStep == ret'.op = "backward" /\ nbwd' = nbwd + 1

\* C9: on a training instance every forward call that completes leaves
\* self.mean and self.inv_std in storage that no earlier call has used, so
\* that no cache a gradient function has captured is written by a later
\* forward call; and no backward call consumes a cache that an earlier
\* backward call has consumed.
C9_FreshCache ==
    [][/\ (nfwd' = nfwd + 1 /\ self.kind = "train" /\ ret'.status = "ok") =>
            /\ self'.mean \notin 1..Len(heap)
            /\ self'.inv_std \notin 1..Len(heap)
            /\ \A n \in 1..Len(grads) :
                  /\ heap'[grads[n].mean] = heap[grads[n].mean]
                  /\ heap'[grads[n].inv_std] = heap[grads[n].inv_std]
       /\ (BackwardStep /\ self.kind = "train" /\ ret'.status = "ok") =>
            \A n \in 1..Len(grads) :
                grads[n].mean # self.mean /\ grads[n].inv_std # self.inv_std]_vars

\* the storage with every array but the cache of g blanked
OnlyCache(h, g) ==
    Tup(Len(h), LAMBDA r : IF r \in {g.mean, g.inv_std} THEN h[r] ELSE EmptyLike(h[r]))

\* the running statistics are the same arrays with the same contents
RunningKept ==
    /\ self'.running_mean = self.running_mean
    /\ self'.running_var = self.running_var
    /\ heap'[self.running_mean] = heap[self.running_mean]
    /\ heap'[self.running_var] = heap[self.running_var]

ModeInputs ==
    {Input(Tup(r, LAMBDA k : 2), gs, gs, dtype, dtype, 1, xp) :
        r \in 2..4, gs \in {<<2>>, <<2, 2>>}, dtype \in {"float16", "float32"},
        xp \in {"numpy", "cupy"}}

InitMode ==
    InitWith(Envs(BOOLEAN, {TRUE}), {"train"}, {Q(1, 2)},
             {NoneAxis, TupleAxis(<<0, 1, 2>>)}, {<<NoRef, NoRef>>})

NextMode == DoForward(ModeInputs)

SpecMode == InitMode /\ [][NextMode]_vars

\* the two layouts of the accelerated path
ChannelSecond(x, key_axis) == Len(x.shape) = 4 /\ key_axis = <<1>>
ChannelLast(x, key_axis) == key_axis = <<Len(x.shape) - 1>>

\* a forward call that completes selects the accelerated path only on
\* cupy arrays, with the library enabled, a 1-d gamma and one of the two
\* layouts
SelectedOnlyIf ==
    (nfwd' = nfwd + 1 /\ ret'.status = "ok" /\ self'.use_cudnn) =>
        /\ ret'.in.xp # "numpy"
        /\ env.cudnn
        /\ Len(ret'.in.gamma.shape) = 1
        /\ \/ ChannelSecond(ret'.in.x, self'.key_axis)
           \/ ChannelLast(ret'.in.x, self'.key_axis)

SmallEps == QInt(0)

\* batches over one or two channels in the channel-last layout
EpsInputs ==
    {Input(xs, <<xs[2]>>, <<xs[2]>>, "float32", "float32", seed, xp) :
        xs \in {<<2, 1>>, <<2, 2>>}, seed \in {0, 1}, xp \in {"numpy", "cupy"}}

NextEps ==
    \/ DoInit({"train", "fixed"}, {SmallEps, Eps}, {NoneAxis})
    \/ DoForward(EpsInputs)
    \/ DoBackward({1})
    \/ DoFixedForward(EpsInputs)
SpecEps == InitNone /\ [][NextEps]_vars

\* a call that has run a routine of the library: a forward call of either
\* mode that completes on the accelerated path, or a backward call on it
AcceleratedCall ==
    \/ /\ nfwd' = nfwd + 1
       /\ ret'.status = "ok"
       /\ CanUseCudnn(BNMode(ret'.in.x, ret'.in.gamma, self'.key_axis),
                      ret'.in.xp, env.cudnn)
    \/ /\ ret'.op = "backward"
       /\ ret'.status = "ok"
       /\ grads'[Len(grads')].use_cudnn

\* C12: a construction with eps below 1e-5 while the accelerated path is
\* requested fails with the epsilon error, in the training mode and in the
\* fixed mode, and no routine of the library is run with such an eps.
C12_EpsChecked ==
    [][/\ (ret'.op = "__init__" /\ env.cudnn /\ QLess(ctor'.eps, MinEps))
              => ret'.status = "eps less than 1e-5"
       /\ AcceleratedCall => ~QLess(self'.eps, MinEps)]_vars

\* the part of C12 that the training mode keeps
C12_TrainEpsChecked ==
    [][/\ (ret'.op = "__init__" /\ env.cudnn /\ ctor'.kind = "train"
              /\ QLess(ctor'.eps, MinEps))
              => ret'.status = "eps less than 1e-5"
       /\ (AcceleratedCall /\ self'.kind = "train") => ~QLess(self'.eps, MinEps)]_vars

\* a fixed-mode object built with eps below the minimum has run the
\* library's inference routine
C12_FixedSmallEps ==
    /\ self.kind = "fixed"
    /\ QLess(self.eps, MinEps)
    /\ ret.op = "forward"
    /\ ret.status = "ok"
    /\ CanUseCudnn(BNMode(ret.in.x, ret.in.gamma, self.key_axis), ret.in.xp, env.cudnn)

\* ------------------------------------------- C13: the axis at construction
\* the axis arguments: None, ints, tuples and lists of ints, and what is
\* none of these: the strings "0" and "01", the tuples of floats (0.0,)
\* and (0.0, 1.0), the float 0.0, the set {0}
AxisArgs ==
    {NoneAxis} \cup {IntAxis(a) : a \in 0..2}
        \cup {TupleAxis(t) : t \in {<<>>, <<0>>, <<1>>, <<0, 1>>, <<0, 2>>}}
        \cup {ListAxis(t) : t \in {<<0>>, <<0, 1>>}}
        \cup {StrAxis(t) : t \in {<<48>>, <<48, 49>>}}
        \cup {FloatsAxis(t) : t \in {<<0>>, <<0, 1>>}}
        \cup {FloatAxis(0), SetAxis(<<0>>)}

NextInit == DoInit({"train", "fixed"}, {SmallEps, Eps}, AxisArgs)
SpecInit == InitNone /\ [][NextInit]_vars

\* the argument is None, an int or a sequence of ints
IntSequence(arg) == arg.type \in {"tuple", "list"}
ValidAxis(arg) == arg.type = "none" \/ IsInt(arg) \/ IntSequence(arg)

\* a construction that gets as far as the axis: it returns the object or
\* raises the axis error
AxisReached == ret'.op = "__init__" /\ ret'.status # "eps less than 1e-5"

\* an int becomes the one-element tuple, None and sequences are kept
AxisKept ==
    (AxisReached /\ ret'.status = "ok") =>
        /\ IsInt(ctor'.axis) => self'.axis = Tuple(<<ctor'.axis.v[1]>>)
        /\ ctor'.axis.type = "none" => self'.axis = NoneTuple
        /\ IsSequence(ctor'.axis) => self'.axis = Tuple(ctor'.axis.v)

\* C13: an axis argument that is neither None, an int nor a sequence of
\* ints makes the construction fail with the axis error; an int is kept as
\* a one-element sequence; every object that is constructed holds None or
\* a sequence of integers.
C13_AxisValidated ==
    [][/\ (AxisReached /\ ~ValidAxis(ctor'.axis))
              => ret'.status = "axis must be int, tuple of int or None"
       /\ AxisKept
       /\ (AxisReached /\ ret'.status = "ok" /\ self'.axis.some)
              => (IsInt(ctor'.axis) \/ IntSequence(ctor'.axis))]_vars

\* what the constructor does check: an argument that is neither None, an
\* int nor a sequence of any kind raises the axis error
C13_SequenceChecked ==
    [][/\ (AxisReached /\ AxisRaises(ctor'.axis))
              <=> ret'.status = "axis must be int, tuple of int or None"
       /\ AxisKept]_vars

\* an object has been constructed whose axis is a sequence of non-integers
C13_NonIntegerAxis ==
    /\ ret.op = "__init__"
    /\ ret.status = "ok"
    /\ self.axis.some
    /\ ctor.axis.type \in {"str", "floats"}
    /\ self.axis.t = ctor.axis.v

\* --------------------------------------- C14: the path and its cache
\* batches in the channel-last layout on either array module, so that one
\* object can take both paths
PathInputs ==
    {Input(<<2, 2>>, <<2>>, <<2>>, "float32", "float32", seed, xp) :
        seed \in {1, 2}, xp \in {"numpy", "cupy"}}

InitPaths == InitWith(Envs(BOOLEAN, {TRUE}), {"train"}, {Q(1, 2)}, {NoneAxis}, Both)

NextPaths ==
    \/ DoForward(PathInputs)
    \/ DoBackward({1})
    \/ DoGradBackward({{}, {1}})

SpecPaths == InitPaths /\ [][NextPaths]_vars

\* a forward call that completes has chosen its path from its inputs and
\* left the cache to that path
ChosenAtForward ==
    (nfwd' = nfwd + 1 /\ ret'.status = "ok") =>
        /\ self'.use_cudnn = CanUseCudnn(BNMode(ret'.in.x, ret'.in.gamma, self'.key_axis),
                                         ret'.in.xp, env.cudnn)
        /\ writer' = PathName(self'.use_cudnn)

\* a first-order backward call that completes has run on the path that
\* wrote the cache, on that cache
FirstOrderPaired ==
    (ret'.op = "backward" /\ ret'.status = "ok") =>
        /\ PathName(grads'[Len(grads')].use_cudnn) = writer
        /\ grads'[Len(grads')].mean = self.mean
        /\ grads'[Len(grads')].inv_std = self.inv_std

\* a completed second-order backward call
SecondOrderStep == nbwd' = nbwd + 1 /\ ret'.op = "grad_backward" /\ ret'.status = "ok"

\* C14 as stated: the path is chosen at the forward call, the first-order
\* backward runs on the path that wrote the cache, and the second-order
\* backward, whose computations are the generic ones, reads only a cache
\* of the generic path.
C14_SamePathAllOrders ==
    [][/\ ChosenAtForward
       /\ FirstOrderPaired
       /\ SecondOrderStep => ~grads[ret'.k].use_cudnn]_vars

\* C14 (amended): the path is chosen at the forward call and the
\* first-order backward runs on the path that wrote the cache; the
\* second-order backward has one computation, the generic one, and gives
\* on a cache of the accelerated path what it gives on the same arrays
\* when they come from the generic path.
C14_FirstOrderPaired ==
    [][/\ ChosenAtForward
       /\ FirstOrderPaired
       /\ SecondOrderStep =>
              ret'.out = GradBackward([grads[ret'.k] EXCEPT !.use_cudnn = FALSE,
                                                           !.mode = NoMode],
                                      heap, ret'.gg)]_vars

\* a second-order backward call has completed on the cache of an
\* accelerated forward call, after the first-order backward on that path
C14_Witness ==
    /\ ret.op = "grad_backward"
    /\ ret.status = "ok"
    /\ grads[ret.k].use_cudnn
    /\ writer = "cudnn"

\* ------------------------------------- C15: the first-order gradients
\* batches of rank 2 and 3 with a gamma that matches the key axes and one
\* that does not, on either array module
BackwardInputs ==
    {Input(xs, gs, gs, "float32", "float32", seed, xp) :
        xs \in {<<2, 2>>, <<2, 2, 2>>}, gs \in {<<2>>, <<2, 1>>},
        seed \in {1, 2}, xp \in {"numpy", "cupy"}}

InitBackward ==
    InitWith(Envs(BOOLEAN, {TRUE}), {"train"}, {Q(1, 2)}, {NoneAxis, IntAxis(0)},
             {<<NoRef, NoRef>>})

NextBackward ==
    \/ DoForward(BackwardInputs)
    \/ DoBackward({1, 2})

SpecBackward == InitBackward /\ [][NextBackward]_vars

\* a first-order backward call that completes on the generic path
GenericBackwardStep ==
    BackwardStep /\ ret'.status = "ok" /\ ~grads'[Len(grads')].use_cudnn

\* the channel of the element i of x: its coordinates on the key axes
Chan(i, key_axis) == Tup(Len(key_axis), LAMBDA k : i[key_axis[k] + 1])

\* gx, ggamma and gbeta have the shapes of x, gamma and gamma
GradShapes(g) ==
    /\ g.outputs[1].shape = g.inputs[1].shape
    /\ g.outputs[2].shape = g.inputs[2].shape
    /\ g.outputs[3].shape = g.inputs[2].shape

\* the three gradients, element by element, from x, gamma, gy and the
\* cache (mean, inv_std): sums over the elements of a channel
GradValues(g, mean, inv_std) ==
    LET x == g.inputs[1]
        gamma == g.inputs[2]
        gy == g.inputs[3]
        I == Idx(x.shape)
        c(i) == Chan(i, g.key_axis)
        inv_m == Q(1, Size(x) \div Size(gamma))
        x_hat == [i \in I |-> QMul(QSub(x.v[i], mean.v[c(i)]), inv_std.v[c(i)])]
        gbeta == [k \in Idx(gamma.shape) |->
                     QSumSet({i \in I : c(i) = k}, [i \in I |-> gy.v[i]])]
        ggamma == [k \in Idx(gamma.shape) |->
                      QSumSet({i \in I : c(i) = k},
                              [i \in I |-> QMul(gy.v[i], x_hat[i])])]
    IN  /\ \A k \in Idx(gamma.shape) :
              /\ g.outputs[3].v[k] = gbeta[k]
              /\ g.outputs[2].v[k] = ggamma[k]
        /\ \A i \in I :
              g.outputs[1].v[i] =
                  QMul(QMul(gamma.v[c(i)], inv_std.v[c(i)]),
                       QSub(gy.v[i],
                            QMul(QAdd(QMul(x_hat[i], ggamma[c(i)]), gbeta[c(i)]),
                                 inv_m)))

\* the cache holds one mean and one inverse standard deviation per channel
PerChannel(g, h) ==
    /\ KeysMatch(g.key_axis, g.inputs[1], g.inputs[2])
    /\ h[g.mean].shape = g.inputs[2].shape
    /\ h[g.inv_std].shape = g.inputs[2].shape
    /\ g.inputs[3].shape = g.inputs[1].shape

\* C15: on the generic path the first-order backward returns
\* gbeta = sum(gy), ggamma = sum(gy * x_hat) with x_hat = (x - mean) * inv_std
\* and gx = (gamma * inv_std) * (gy - (x_hat * ggamma + gbeta) * inv_m), the
\* sums taken over each channel and inv_m = 1 / (x.size / gamma.size); gx
\* has the shape of x, ggamma and gbeta have the shape of gamma.
C15_GenericGradients ==
    [][GenericBackwardStep =>
        LET g == grads'[Len(grads')]
        IN  /\ GradShapes(g)
            /\ PerChannel(g, heap) => GradValues(g, heap[g.mean], heap[g.inv_std])]_vars

\* the same where gamma has the shape of x on the key axes
C15_GenericGradientsMatched ==
    [][(GenericBackwardStep /\ PerChannel(grads'[Len(grads')], heap)) =>
        LET g == grads'[Len(grads')]
        IN  /\ GradShapes(g)
            /\ GradValues(g, heap[g.mean], heap[g.inv_std])]_vars

\* a generic first-order backward has completed on a gamma whose shape is
\* not that of x on the key axes
C15_Unmatched ==
    /\ ret.op = "backward"
    /\ ret.status = "ok"
    /\ ~grads[Len(grads)].use_cudnn
    /\ ~KeysMatch(grads[Len(grads)].key_axis, grads[Len(grads)].inputs[1],
                  grads[Len(grads)].inputs[2])

\* a generic first-order backward has completed with gradients that are
\* not all zero, on numpy and through the elementwise kernel
C15_Matched ==
    /\ ret.op = "backward"
    /\ ret.status = "ok"
    /\ ~grads[Len(grads)].use_cudnn
    /\ PerChannel(grads[Len(grads)], heap)
    /\ self.xp = "cupy"
    /\ \E i \in Idx(ret.out[1].shape) : ret.out[1].v[i] # QInt(0)

====
